---- MODULE Spec2Model ----
(***************************************************************************)
(* Library catalog and circulation service (services/library_service.py)   *)
(* over its relational store.  Strings are sequences of one-character      *)
(* strings; instants are integers counted in ticks, TicksPerDay ticks to a *)
(* day; money is counted in cents.                                         *)
(***************************************************************************)
EXTENDS Integers, Sequences, FiniteSets, TLC

VARIABLES books, records, now, result, trip, calls, procs

vars == <<books, records, now, result, trip, calls, procs>>

----------------------------------------------------------------------------
(* Bounds of the exploration *)

MaxBooks == 2
MaxRecords == 2
MaxNow == 1
TicksPerDay == 2
MaxBooksLimit == 6
MaxRecordsLimit == 6
MaxReturnsLimit == 1
MaxAdvanceDays == 33
MaxAdvanceWeeks == 3
MaxDrift == 1
MaxBooksCap == 5
MaxOverdueDays == 19
MaxLateDays == 2
MaxBooksRace == 6

(* Program constants *)

MaxBorrowed == 5
LoanDays == 14
PatronIdLen == 6
IsbnLen == 13
MaxTitleLen == 200
MaxAuthorLen == 100
FirstTierDays == 7
FirstTierRate == 50
SecondTierRate == 100
MaxFee == 1500
MaxRefund == 1500

----------------------------------------------------------------------------
(* Values *)

NoDate == -1
NoBook == [id |-> 0]
None == <<"None">>
Digits == {"0", "1", "2", "3", "4", "5", "6", "7", "8", "9"}

\* str.isdigit(): non-empty and every character a digit
isdigit(s) == Len(s) > 0 /\ \A i \in 1..Len(s) : s[i] \in Digits

\* str.strip(): leading and trailing blanks removed
RECURSIVE lstrip(_)
lstrip(s) == IF s # <<>> /\ Head(s) = " " THEN lstrip(Tail(s)) ELSE s

RECURSIVE rstrip(_)
rstrip(s) ==
  IF s # <<>> /\ s[Len(s)] = " " THEN rstrip(SubSeq(s, 1, Len(s) - 1)) ELSE s

strip(s) == rstrip(lstrip(s))

\* ' ' in s
HasSpace(s) == \E i \in 1..Len(s) : s[i] = " "

DaysAsTicks(n) == n

\* timedelta(days=n)
Days(n) == n * TicksPerDay

\* datetime.strftime("%Y-%m-%d"): the calendar day of an instant
DateOf(t) == t \div TicksPerDay

Result(ok, msg, args) == [success |-> ok, message |-> msg, args |-> args]

\* a call that returns a dict or a list rather than a (success, message) pair
Returned(value) == [value |-> value]

\* an exception that leaves the function instead of a returned value
Raised(error) == [exception |-> error]
IsRaised(r) == "exception" \in DOMAIN r

\* what the caller of a function that returns a dict gets: the dict, or the
\* exception that left the function
Outcome(value) == IF IsRaised(value) THEN value ELSE Returned(value)

\* the (success, message, transaction_id) triple of pay_late_fees
Result3(ok, msg, args, transaction_id) ==
  [success |-> ok, message |-> msg, args |-> args,
   transaction_id |-> transaction_id]

\* the calls a request made to the payment gateway: none
NoCalls == <<>>

\* str.lower() of one character
LowerOf(c) ==
  CASE c = "A" -> "a" [] c = "B" -> "b" [] c = "D" -> "d" [] c = "E" -> "e"
    [] c = "H" -> "h" [] c = "N" -> "n" [] c = "U" -> "u" [] OTHER -> c

\* str.lower()
lower(s) == [i \in 1..Len(s) |-> LowerOf(s[i])]

\* str.startswith(prefix)
startswith(s, prefix) ==
  Len(s) >= Len(prefix) /\ SubSeq(s, 1, Len(prefix)) = prefix

\* term in s: term is the part of s that starts at some position
contains(s, term) ==
  \E start \in 1..(Len(s) - Len(term) + 1) :
    SubSeq(s, start, start + Len(term) - 1) = term

----------------------------------------------------------------------------
(* The store: the books table in id order, and the borrow_records table as *)
(* the rows of each (patron_id, book_id) in insertion order.               *)

Rows(patron_id, book_id) ==
  IF <<patron_id, book_id>> \in DOMAIN records
  THEN records[<<patron_id, book_id>>] ELSE <<>>

IsOpen(row) == row.return_date = NoDate

RECURSIVE SelectOpen(_)
SelectOpen(rows) ==
  IF rows = <<>> THEN <<>>
  ELSE IF IsOpen(Head(rows)) THEN <<Head(rows)>> \o SelectOpen(Tail(rows))
  ELSE SelectOpen(Tail(rows))

\* the rows of the table, as (key, position) pairs
RowIds == UNION {{<<k, i>> : i \in 1..Len(records[k])} : k \in DOMAIN records}

RowCount == Cardinality(RowIds)

OpenCount == Cardinality({r \in RowIds : IsOpen(records[r[1]][r[2]])})

ClosedCount == RowCount - OpenCount

get_book_by_id(book_id) ==
  IF book_id \in 1..Len(books) THEN books[book_id] ELSE NoBook

get_book_by_isbn(isbn) ==
  IF \E i \in 1..Len(books) : books[i].isbn = isbn
  THEN books[CHOOSE i \in 1..Len(books) : books[i].isbn = isbn]
  ELSE NoBook

\* the patron's open rows, each with the is_overdue flag of the query instant
RECURSIVE OpenFrom(_, _)
OpenFrom(patron_id, b) ==
  IF b > Len(books) THEN <<>>
  ELSE LET open == SelectOpen(Rows(patron_id, b))
       IN [i \in 1..Len(open) |->
             [book_id |-> b,
              title |-> books[b].title,
              borrow_date |-> open[i].borrow_date,
              due_date |-> open[i].due_date,
              is_overdue |-> now > open[i].due_date]]
          \o OpenFrom(patron_id, b + 1)

get_patron_borrowed_books(patron_id) == OpenFrom(patron_id, 1)

get_patron_borrow_count(patron_id) == Len(get_patron_borrowed_books(patron_id))

get_all_books == books

\* every row of the patron, open or returned, with the title of its book
RECURSIVE AllFrom(_, _)
AllFrom(patron_id, b) ==
  IF b > Len(books) THEN <<>>
  ELSE LET rows == Rows(patron_id, b)
       IN [i \in 1..Len(rows) |->
             [book_id |-> b,
              title |-> books[b].title,
              borrow_date |-> rows[i].borrow_date,
              due_date |-> rows[i].due_date,
              return_date |-> rows[i].return_date]]
          \o AllFrom(patron_id, b + 1)

get_all_patron_record(patron_id) == AllFrom(patron_id, 1)

insert_book(title, author, isbn, total_copies, available_copies) ==
  Append(books, [id |-> Len(books) + 1, title |-> title, author |-> author,
                 isbn |-> isbn, total_copies |-> total_copies,
                 available_copies |-> available_copies])

insert_borrow_record(recs, patron_id, book_id, borrow_date, due_date) ==
  LET k == <<patron_id, book_id>>
      row == [borrow_date |-> borrow_date, due_date |-> due_date,
              return_date |-> NoDate]
  IN [x \in DOMAIN recs \cup {k} |->
        IF x = k
        THEN (IF k \in DOMAIN recs THEN Append(recs[k], row) ELSE <<row>>)
        ELSE recs[x]]

update_book_availability(bks, book_id, delta) ==
  [i \in 1..Len(bks) |->
     IF i = book_id
     THEN [bks[i] EXCEPT !.available_copies = @ + delta]
     ELSE bks[i]]

update_borrow_record_return_date(recs, patron_id, book_id, return_date) ==
  [x \in DOMAIN recs |->
     IF x = <<patron_id, book_id>>
     THEN [i \in 1..Len(recs[x]) |->
             IF IsOpen(recs[x][i])
             THEN [recs[x][i] EXCEPT !.return_date = return_date]
             ELSE recs[x][i]]
     ELSE recs[x]]

----------------------------------------------------------------------------
(* Late fee of the patron's open record of a book *)

FeeOfUncapped(num_days_overdue) ==
  IF num_days_overdue <= FirstTierDays
  THEN num_days_overdue * FirstTierRate
  ELSE FirstTierDays * FirstTierRate
         + (num_days_overdue - FirstTierDays) * SecondTierRate

FeeOfSecondTierOnly(num_days_overdue) ==
  IF num_days_overdue <= FirstTierDays
  THEN num_days_overdue * FirstTierRate
  ELSE LET overdue_amt == (num_days_overdue - FirstTierDays) * SecondTierRate
       IN IF overdue_amt < MaxFee THEN overdue_amt ELSE MaxFee

\* the tiers of the fee, in cents
FeeOf(num_days_overdue) ==
  IF num_days_overdue <= FirstTierDays
  THEN num_days_overdue * FirstTierRate
  ELSE LET overdue_amt == FirstTierDays * FirstTierRate
                          + (num_days_overdue - FirstTierDays) * SecondTierRate
       IN IF overdue_amt < MaxFee THEN overdue_amt ELSE MaxFee

NotOverdueNever(book) == FALSE

\* not overdue_status
NotOverdue(book) == ~book.is_overdue

DaysOfCeiling(time_diff) == (time_diff + TicksPerDay - 1) \div TicksPerDay

\* time_diff.days: the whole days of a time difference
DaysOf(time_diff) == time_diff \div TicksPerDay

NoBorrowedBookNever(borrowed_book) == FALSE

\* not borrowed_book
NoBorrowedBook(borrowed_book) == borrowed_book = <<>>

calculate_late_fee_for_book(patron_id, book_id) ==
  LET borrowed_book ==
        SelectSeq(get_patron_borrowed_books(patron_id),
                  LAMBDA r : r.book_id = book_id)
      last == borrowed_book[Len(borrowed_book)]
      num_days_overdue == DaysOf(now - last.due_date)
  IN IF NoBorrowedBook(borrowed_book)
     THEN [fee_amount |-> 0, days_overdue |-> 0]
     \* for book in borrowed_book: overdue_status = book["is_overdue"] binds
     \* overdue_status only when the list has a row, and the read of
     \* overdue_status raises when it was never bound
     ELSE IF borrowed_book = <<>>
     THEN Raised("UnboundLocalError")
     ELSE IF NotOverdue(last)
     THEN [fee_amount |-> 0, days_overdue |-> 0]
     ELSE [fee_amount |-> FeeOf(num_days_overdue),
           days_overdue |-> num_days_overdue]

----------------------------------------------------------------------------
(* Operations *)

TitleTooLongAtLimit(title) == Len(strip(title)) >= MaxTitleLen

\* len(title.strip()) > 200
TitleTooLong(title) == Len(strip(title)) > MaxTitleLen

DuplicateIsbnNever(existing) == FALSE

\* existing: get_book_by_isbn(isbn) found a book
DuplicateIsbn(existing) == existing # NoBook

InitialAvailableNone(total_copies) == 0

\* available_copies of the inserted book: insert_book(..., total_copies,
\* total_copies)
InitialAvailable(total_copies) == total_copies

\* total_copies is an int here, so that isinstance(total_copies, int) holds
add_book_to_catalog(title, author, isbn, total_copies, insert_ok) ==
  /\ UNCHANGED <<records, now>>
  /\ calls' = NoCalls
  /\ IF strip(title) = <<>>
     THEN /\ result' = Result(FALSE, "Title is required.", <<>>)
          /\ UNCHANGED books
     ELSE IF TitleTooLong(title)
     THEN /\ result' = Result(FALSE, "Title must be less than 200 characters.", <<>>)
          /\ UNCHANGED books
     ELSE IF strip(author) = <<>>
     THEN /\ result' = Result(FALSE, "Author is required.", <<>>)
          /\ UNCHANGED books
     ELSE IF Len(strip(author)) > MaxAuthorLen
     THEN /\ result' = Result(FALSE, "Author must be less than 100 characters.", <<>>)
          /\ UNCHANGED books
     ELSE IF isbn = None
     THEN /\ result' = Result(FALSE,
               "ISBN cannot be None. Must only be comprised of digits in a string.", <<>>)
          /\ UNCHANGED books
     ELSE IF Len(isbn) # IsbnLen
     THEN /\ result' = Result(FALSE, "ISBN must be exactly 13 digits.", <<>>)
          /\ UNCHANGED books
     ELSE IF HasSpace(isbn)
     THEN /\ result' = Result(FALSE, "ISBN cannot have spaces.", <<>>)
          /\ UNCHANGED books
     ELSE IF ~isdigit(isbn)
     THEN /\ result' = Result(FALSE, "ISBN must be digits", <<>>)
          /\ UNCHANGED books
     ELSE IF total_copies <= 0
     THEN /\ result' = Result(FALSE, "Total copies must be a positive integer.", <<>>)
          /\ UNCHANGED books
     ELSE IF DuplicateIsbn(get_book_by_isbn(isbn))
     THEN /\ result' = Result(FALSE, "A book with this ISBN already exists.", <<>>)
          /\ UNCHANGED books
     ELSE IF insert_ok
     THEN /\ books' = insert_book(strip(title), strip(author), isbn,
                                  total_copies, InitialAvailable(total_copies))
          /\ result' = Result(TRUE,
               "Book {title} has been successfully added to the catalog.",
               <<strip(title)>>)
     ELSE /\ result' = Result(FALSE,
               "Database error occurred while adding the book.", <<>>)
          /\ UNCHANGED books

\* no validation message: every check passed
Passed == ""

\* not patron_id or not patron_id.isdigit() or len(patron_id) != 6
InvalidPatronId(patron_id) ==
  patron_id = <<>> \/ ~isdigit(patron_id) \/ Len(patron_id) # PatronIdLen

NotAvailableLax(book) == book.available_copies < 0

\* book['available_copies'] <= 0
NotAvailable(book) == book.available_copies <= 0

AlreadyBorrowedNever(patron_curr_books, book_id) == FALSE

\* some curr_book of patron_curr_books has curr_book["book_id"] == book_id
AlreadyBorrowed(patron_curr_books, book_id) ==
  \E i \in 1..Len(patron_curr_books) : patron_curr_books[i].book_id = book_id

LimitReachedNever(current_borrowed) == FALSE

LimitReachedLate(current_borrowed) == current_borrowed > MaxBorrowed

LimitReachedEarly(current_borrowed) == current_borrowed >= MaxBorrowed - 1

\* current_borrowed >= 5
LimitReached(current_borrowed) == current_borrowed >= MaxBorrowed

BorrowValidationLimitFirst(patron_id, book_id) ==
  LET book == get_book_by_id(book_id)
      patron_curr_books == get_patron_borrowed_books(patron_id)
      current_borrowed == get_patron_borrow_count(patron_id)
  IN IF InvalidPatronId(patron_id)
     THEN "Invalid patron ID. Must be exactly 6 digits."
     ELSE IF book = NoBook
     THEN "Book not found."
     ELSE IF LimitReached(current_borrowed)
     THEN "You have reached the maximum borrowing limit of 5 books."
     ELSE IF NotAvailable(book)
     THEN "This book is currently not available."
     ELSE IF AlreadyBorrowed(patron_curr_books, book_id)
     THEN "You have already borrowed a copy of this book."
     ELSE Passed

\* the validation of a borrow request, in the order of the code: the message
\* of the first check that fails
BorrowValidation(patron_id, book_id) ==
  LET book == get_book_by_id(book_id)
      patron_curr_books == get_patron_borrowed_books(patron_id)
      current_borrowed == get_patron_borrow_count(patron_id)
  IN IF InvalidPatronId(patron_id)
     THEN "Invalid patron ID. Must be exactly 6 digits."
     ELSE IF book = NoBook
     THEN "Book not found."
     ELSE IF NotAvailable(book)
     THEN "This book is currently not available."
     ELSE IF AlreadyBorrowed(patron_curr_books, book_id)
     THEN "You have already borrowed a copy of this book."
     ELSE IF LimitReached(current_borrowed)
     THEN "You have reached the maximum borrowing limit of 5 books."
     ELSE Passed

BorrowDeltaUp == 0 + 1

BorrowDeltaNone == 0 + 0

\* update_book_availability(book_id, -1)
BorrowDelta == 0 - 1

AvailabilityFailedRolledBack(patron_id, book_id, borrow_date, due_date) ==
  /\ result' = Result(FALSE,
       "Database error occurred while updating book availability.", <<>>)
  /\ UNCHANGED <<books, records>>

\* update_book_availability(book_id, -1) failed after insert_borrow_record
\* was done: return False, "Database error ... updating book availability."
AvailabilityFailed(patron_id, book_id, borrow_date, due_date) ==
  /\ result' = Result(FALSE,
       "Database error occurred while updating book availability.", <<>>)
  /\ records' = insert_borrow_record(records, patron_id, book_id,
                                     borrow_date, due_date)
  /\ UNCHANGED books

\* insert_ok, update_ok: whether insert_borrow_record and
\* update_book_availability succeed; a write that fails changes nothing
borrow_book_by_patron(patron_id, book_id, insert_ok, update_ok) ==
  LET book == get_book_by_id(book_id)
      failed == BorrowValidation(patron_id, book_id)
      borrow_date == now
      due_date == borrow_date + Days(LoanDays)
  IN
  /\ UNCHANGED now
  /\ calls' = NoCalls
  /\ IF failed # Passed
     THEN /\ result' = Result(FALSE, failed, <<>>)
          /\ UNCHANGED <<books, records>>
     ELSE IF ~insert_ok
     THEN /\ result' = Result(FALSE,
               "Database error occurred while creating borrow record.", <<>>)
          /\ UNCHANGED <<books, records>>
     ELSE IF ~update_ok
     THEN AvailabilityFailed(patron_id, book_id, borrow_date, due_date)
     ELSE /\ records' = insert_borrow_record(records, patron_id, book_id,
                                             borrow_date, due_date)
          /\ books' = update_book_availability(books, book_id, BorrowDelta)
          /\ result' = Result(TRUE,
               "Successfully borrowed {title}. Due date: {due_date}.",
               <<book.title, DateOf(due_date)>>)

ReturnMatchAnyBook(patron_id, book_id) ==
  get_patron_borrowed_books(patron_id)

\* the patron's open records of the book being returned
ReturnMatch(patron_id, book_id) ==
  SelectSeq(get_patron_borrowed_books(patron_id),
            LAMBDA record : record.book_id = book_id)

ReturnDeltaTwice == 1 + 1

\* update_book_availability(book_id, +1)
ReturnDelta == 0 + 1

ReturnRejectedAfterUpdate(patron_id, book_id) ==
  /\ result' = Result(FALSE, "You have not currently borrowed this book.", <<>>)
  /\ books' = update_book_availability(books, book_id, ReturnDelta)
  /\ UNCHANGED records

\* return False, "You have not currently borrowed this book."
ReturnRejected(patron_id, book_id) ==
  /\ result' = Result(FALSE, "You have not currently borrowed this book.", <<>>)
  /\ UNCHANGED <<books, records>>

LateFeeAfterClose(patron_id, book_id) ==
  [fee_amount |-> 0, days_overdue |-> 0]

\* calculate_fee: computed before the return date is written
LateFeeAtReturn(patron_id, book_id) ==
  calculate_late_fee_for_book(patron_id, book_id)

ReturnDateUnset == NoDate

\* return_date = datetime.now()
ReturnDate == now

\* update_borrow_record_return_date failed after update_book_availability
\* was done: return False, "Database error ... updating book return date."
ReturnDateFailed(patron_id, book_id) ==
  /\ result' = Result(FALSE,
       "Database error occurred while updating book return date.", <<>>)
  /\ UNCHANGED records

\* update_ok, return_ok: whether update_book_availability and
\* update_borrow_record_return_date succeed
return_book_by_patron(patron_id, book_id, update_ok, return_ok) ==
  LET borrowed_book == ReturnMatch(patron_id, book_id)
      calculate_fee == LateFeeAtReturn(patron_id, book_id)
      late_fees == calculate_fee.fee_amount
      days_late == calculate_fee.days_overdue
      return_date == ReturnDate
  IN
  /\ UNCHANGED now
  /\ calls' = NoCalls
  /\ IF borrowed_book = <<>>
     THEN ReturnRejected(patron_id, book_id)
     ELSE IF ~update_ok
     THEN /\ result' = Result(FALSE,
               "Database error occurred while updating book availability.", <<>>)
          /\ UNCHANGED <<books, records>>
     ELSE /\ books' = update_book_availability(books, book_id, ReturnDelta)
          /\ IF ~return_ok
             THEN ReturnDateFailed(patron_id, book_id)
             ELSE /\ records' = update_borrow_record_return_date(
                                   records, patron_id, book_id, return_date)
                  /\ IF late_fees = 0
                     THEN result' = Result(TRUE,
                            "You have successfully returned your book. There are no late fees on this book. Thank you!",
                            <<>>)
                     ELSE result' = Result(TRUE,
                            "You have successfully returned your book. This book is {days_late} days late and you owe ${fee_amount} in late fees for this book.",
                            <<days_late, late_fees>>)

\* calculate_late_fee_for_book called on its own
calculate_late_fee(patron_id, book_id) ==
  /\ result' = Outcome(calculate_late_fee_for_book(patron_id, book_id))
  /\ calls' = NoCalls
  /\ UNCHANGED <<books, records, now>>

IsbnMatchesPartly(b, search_term) == contains(b.isbn, search_term)

\* b["isbn"] == search_term
IsbnMatches(b, search_term) == b.isbn = search_term

\* the books of all_books that the search keeps, in the order of the scan
RECURSIVE SearchFrom(_, _, _)
SearchFrom(all_books, search_term, search_type) ==
  IF all_books = <<>> THEN <<>>
  ELSE LET b == Head(all_books)
           rest == SearchFrom(Tail(all_books), search_term, search_type)
       IN IF search_type = "isbn"
          THEN (IF IsbnMatches(b, search_term) THEN <<b>> \o rest ELSE rest)
          ELSE IF search_type = "title"
          THEN (IF contains(lower(b.title), lower(search_term))
                THEN <<b>> \o rest ELSE rest)
          ELSE IF search_type = "author"
          THEN (IF contains(lower(b.author), lower(search_term))
                THEN <<b>> \o rest ELSE rest)
          ELSE rest

search_books_in_catalog(search_term, search_type) ==
  /\ result' = Returned(SearchFrom(get_all_books, search_term, search_type))
  /\ calls' = NoCalls
  /\ UNCHANGED <<books, records, now>>

\* sum(overdue_fees)
RECURSIVE sum(_)
sum(amounts) == IF amounts = <<>> THEN 0 ELSE Head(amounts) + sum(Tail(amounts))

NumCurrentlyBorrowedEver(currently_borrowed, borrowing_history) ==
  Len(borrowing_history)

\* num_currently_borrowed = len(currently_borrowed)
NumCurrentlyBorrowed(currently_borrowed, borrowing_history) ==
  Len(currently_borrowed)

PatronAllBooksOpen(patron_id) ==
  SelectSeq(get_all_patron_record(patron_id),
            LAMBDA item : item.return_date = NoDate)

\* patron_all_books = get_all_patron_record(patron_id)
PatronAllBooks(patron_id) == get_all_patron_record(patron_id)

StatusReport(patron_id) ==
  LET patron_current_books == get_patron_borrowed_books(patron_id)
      currently_borrowed ==
        [i \in 1..Len(patron_current_books) |->
           [book_id |-> patron_current_books[i].book_id,
            title |-> patron_current_books[i].title,
            borrow_date |-> patron_current_books[i].borrow_date,
            due_date |-> patron_current_books[i].due_date]]
      \* for book in currently_borrowed: overdue_fees.append(fee of
      \* book['book_id']), the book_id being that of the borrowed book
      overdue_fees ==
        [i \in 1..Len(patron_current_books) |->
           calculate_late_fee_for_book(patron_id,
                                       patron_current_books[i].book_id).fee_amount]
      total_overdue == sum(overdue_fees)
      patron_all_books == PatronAllBooks(patron_id)
      borrowing_history ==
        [i \in 1..Len(patron_all_books) |->
           [book_id |-> patron_all_books[i].book_id,
            title |-> patron_all_books[i].title,
            return_date |-> patron_all_books[i].return_date]]
  IN [curr_borrowed_books |-> currently_borrowed,
      total_late_fees_owed |-> total_overdue,
      num_books_currently_borrowed |->
        NumCurrentlyBorrowed(currently_borrowed, borrowing_history),
      borrowing_history |-> borrowing_history]

get_patron_status_report(patron_id) ==
  /\ result' = Returned(StatusReport(patron_id))
  /\ calls' = NoCalls
  /\ UNCHANGED <<books, records, now>>

PaymentAcceptedClosing(patron_id, book_id, message, transaction_id) ==
  /\ result' = Result3(TRUE, "Payment successful! {message}", <<message>>,
                       transaction_id)
  /\ records' = update_borrow_record_return_date(records, patron_id, book_id,
                                                 now)
  /\ UNCHANGED books

\* return True, f"Payment successful! {message}", transaction_id
PaymentAccepted(patron_id, book_id, message, transaction_id) ==
  /\ result' = Result3(TRUE, "Payment successful! {message}", <<message>>,
                       transaction_id)
  /\ UNCHANGED <<books, records>>

\* not fee_info or 'fee_amount' not in fee_info
FeeUnavailable(fee_info) ==
  DOMAIN fee_info = {} \/ "fee_amount" \notin DOMAIN fee_info

NoFeeToPayNegative(fee_amount) == fee_amount < 0

\* fee_amount <= 0
NoFeeToPay(fee_amount) == fee_amount <= 0

\* payment_gateway.process_payment(patron_id=patron_id, amount=fee_amount,
\* description=f"Late fees for '{book['title']}'")
process_payment(patron_id, amount, title) ==
  [method |-> "process_payment", patron_id |-> patron_id, amount |-> amount,
   description |-> <<"Late fees for '{title}'", title>>]

\* payment_gateway.refund_payment(transaction_id, amount)
refund_payment(transaction_id, amount) ==
  [method |-> "refund_payment", transaction_id |-> transaction_id,
   amount |-> amount]

\* response: what payment_gateway.process_payment does, a (success,
\* transaction_id, message) triple returned or an exception raised
pay_late_fees(patron_id, book_id, response) ==
  LET fee_info == calculate_late_fee_for_book(patron_id, book_id)
      fee_amount == fee_info.fee_amount
      book == get_book_by_id(book_id)
  IN
  /\ UNCHANGED now
  /\ IF InvalidPatronId(patron_id)
     THEN /\ result' = Result3(FALSE,
               "Invalid patron ID. Must be exactly 6 digits.", <<>>, None)
          /\ calls' = NoCalls
          /\ UNCHANGED <<books, records>>
     ELSE IF FeeUnavailable(fee_info)
     THEN /\ result' = Result3(FALSE, "Unable to calculate late fees.",
                               <<>>, None)
          /\ calls' = NoCalls
          /\ UNCHANGED <<books, records>>
     ELSE IF NoFeeToPay(fee_amount)
     THEN /\ result' = Result3(FALSE, "No late fees to pay for this book.",
                               <<>>, None)
          /\ calls' = NoCalls
          /\ UNCHANGED <<books, records>>
     ELSE IF book = NoBook
     THEN /\ result' = Result3(FALSE, "Book not found.", <<>>, None)
          /\ calls' = NoCalls
          /\ UNCHANGED <<books, records>>
     ELSE /\ calls' = <<process_payment(patron_id, fee_amount, book.title)>>
          /\ IF response.raised
             THEN /\ result' = Result3(FALSE, "Payment processing error: {e}",
                                       <<response.message>>, None)
                  /\ UNCHANGED <<books, records>>
             ELSE IF response.success
             THEN PaymentAccepted(patron_id, book_id, response.message,
                                  response.transaction_id)
             ELSE /\ result' = Result3(FALSE, "Payment failed: {message}",
                                       <<response.message>>, None)
                  /\ UNCHANGED <<books, records>>

TxnPrefix == <<"t", "x", "n", "_">>

RefundTooLargeAtLimit(amount) == amount >= MaxRefund

\* amount > 15.00
RefundTooLarge(amount) == amount > MaxRefund

\* response: what payment_gateway.refund_payment does, a (success, message)
\* pair returned or an exception raised
refund_late_fee_payment(transaction_id, amount, response) ==
  /\ UNCHANGED <<books, records, now>>
  /\ IF transaction_id = <<>> \/ ~startswith(transaction_id, TxnPrefix)
     THEN /\ result' = Result(FALSE, "Invalid transaction ID.", <<>>)
          /\ calls' = NoCalls
     ELSE IF amount <= 0
     THEN /\ result' = Result(FALSE, "Refund amount must be greater than 0.",
                              <<>>)
          /\ calls' = NoCalls
     ELSE IF RefundTooLarge(amount)
     THEN /\ result' = Result(FALSE,
               "Refund amount exceeds maximum late fee.", <<>>)
          /\ calls' = NoCalls
     ELSE /\ calls' = <<refund_payment(transaction_id, amount)>>
          /\ IF response.raised
             THEN result' = Result(FALSE, "Refund processing error: {e}",
                                   <<response.message>>)
             ELSE IF response.success
             THEN result' = Result(TRUE, "{message}", <<response.message>>)
             ELSE result' = Result(FALSE, "Refund failed: {message}",
                                   <<response.message>>)

\* the clock of datetime.now() moves on between two requests
Tick ==
  /\ now' = now + 1
  /\ UNCHANGED <<books, records, result, calls>>

----------------------------------------------------------------------------
(* Inputs *)

P1 == <<"1", "0", "0", "0", "0", "3">>
P2 == <<"1", "2", "3", "4", "5", "6">>
PShort == <<"1", "2", "3", "4", "5">>
PLong == <<"1", "2", "3", "4", "5", "6", "7">>
PAlpha == <<"P", "a", "t", "r", "o", "n">>

Title1 == <<"D", "u", "n", "e">>
Author1 == <<"H", "e", "r", "b", "e", "r", "t">>
Blank == <<" ", " ">>

Isbn(k) == [i \in 1..IsbnLen |-> IF i = IsbnLen THEN CHOOSE d \in Digits : d = ToString(k) ELSE "9"]

IsbnShort == <<"9", "7", "8">>
IsbnSpace == [i \in 1..IsbnLen |-> IF i = 4 THEN " " ELSE "9"]
IsbnAlpha == [i \in 1..IsbnLen |-> IF i = 4 THEN "x" ELSE "9"]

\* the copies of the k-th book of the catalog: two of the first, one of the
\* second, and so on
CopiesOf(k) == 1 + (k % 2)

\* add_book_to_catalog is called with well-formed arguments for the next
\* ISBN or for one already in the catalog, or with a faulty argument
AddInputs ==
  {<<Title1, Author1, Isbn(k), CopiesOf(k)>> : k \in 1..(Len(books) + 1)}
    \cup {<<Title1, Author1, Isbn(Len(books) + 1), 0>>}

AddBook(inputs, maxBooks) ==
  \E arg \in inputs :
    /\ add_book_to_catalog(arg[1], arg[2], arg[3], arg[4], TRUE)
    /\ Len(books') <= maxBooks

Borrow(patrons, maxBooks, maxRecords) ==
  \E patron_id \in patrons, book_id \in 1..(maxBooks + 1) :
    /\ borrow_book_by_patron(patron_id, book_id, TRUE, TRUE)
    /\ RowCount' <= maxRecords

Return(patrons, maxBooks) ==
  \E patron_id \in patrons, book_id \in 1..(maxBooks + 1) :
    return_book_by_patron(patron_id, book_id, TRUE, TRUE)

\* history of the last requests, kept only where a property needs to compare
\* the store with the store before an earlier request
NoTrip ==
  [phase |-> "none", patron_id |-> <<>>, book_id |-> 0,
   available_copies |-> 0, borrow_count |-> 0]

\* the requests that run interleaved, and where each stands: none runs
ProcIds == {"first", "second"}
NoProc == [pc |-> "idle", patron_id |-> <<>>, book_id |-> 0, book |-> NoBook]
NoProcs == [i \in ProcIds |-> NoProc]

Init ==
  /\ books = <<>>
  /\ records = <<>>
  /\ now = 0
  /\ result = Result(TRUE, "", <<>>)
  /\ trip = NoTrip
  /\ calls = NoCalls
  /\ procs = NoProcs

AddBookStep == AddBook(AddInputs, MaxBooks) /\ UNCHANGED <<trip, procs>>
SpecPatrons == {P1, P2, PShort}
BorrowStep == Borrow(SpecPatrons, MaxBooks, MaxRecords) /\ UNCHANGED <<trip, procs>>
ReturnStep == Return({P1, P2}, MaxBooks) /\ UNCHANGED <<trip, procs>>
TickStep == Tick /\ now' <= MaxNow /\ UNCHANGED <<trip, procs>>

Next == AddBookStep \/ BorrowStep \/ ReturnStep \/ TickStep

Spec == Init /\ [][Next]_vars

\* One patron against a catalog large enough to reach the borrowing limit
AddInputsLimit ==
  {<<Title1, Author1, Isbn(Len(books) + 1), CopiesOf(Len(books) + 1)>>}

AddBookLimit == AddBook(AddInputsLimit, MaxBooksLimit) /\ UNCHANGED <<trip, procs>>
LimitPatrons == {P1, PLong}
BorrowLimit ==
  Borrow(LimitPatrons, MaxBooksLimit, MaxRecordsLimit) /\ UNCHANGED <<trip, procs>>
ReturnLimit ==
  Return({P1}, MaxBooksLimit) /\ ClosedCount' <= MaxReturnsLimit
    /\ UNCHANGED <<trip, procs>>

NextLimit == AddBookLimit \/ BorrowLimit \/ ReturnLimit

SpecLimit == Init /\ [][NextLimit]_vars

\* The catalog under well-formed and faulty add_book_to_catalog arguments
Title200 == [i \in 1..MaxTitleLen |-> "a"]
Title201 == [i \in 1..(MaxTitleLen + 1) |-> "a"]
Title200Padded == <<" ">> \o Title200 \o <<" ">>
Author100 == [i \in 1..MaxAuthorLen |-> "b"]
Author101 == [i \in 1..(MaxAuthorLen + 1) |-> "b"]
IsbnShortSpace == <<"9", " ", "8">>

\* well-formed arguments with the next ISBN
NewBookInputs ==
  {<<Title1, Author1, Isbn(Len(books) + 1), 1>>,
   <<Title200Padded, Author100, Isbn(Len(books) + 1), 2>>}

\* well-formed arguments with the ISBN that the first book has or will have
SameIsbnInputs ==
  {Title1, Title200Padded} \X {Author1, Author100} \X {Isbn(1)} \X {1, 2}

\* arguments with one fault, and with faults in several places at once
FaultyInputs ==
  ({Blank, Title201} \X {Author1, Blank, Author101}
     \X {Isbn(Len(books) + 1), None} \X {0, 1})
  \cup ({Title1} \X {Blank, Author101}
          \X {Isbn(Len(books) + 1), None, IsbnShortSpace} \X {0, 1})
  \cup ({Title1} \X {Author1}
          \X {None, IsbnShortSpace, IsbnSpace, IsbnAlpha, Isbn(1),
              Isbn(Len(books) + 1)}
          \X {0, 1})

AddInputsCatalog == NewBookInputs \cup SameIsbnInputs \cup FaultyInputs

AddBookCatalog == AddBook(AddInputsCatalog, MaxBooks) /\ UNCHANGED <<trip, procs>>

\* terms in either case, inside a field, in the wrong field, empty, a part
\* of an ISBN, and a search type that does not exist
SearchInputs ==
  {<<<<"D", "U", "N", "E">>, "title">>,
   <<<<"u", "n">>, "title">>,
   <<<<"d", "u", "n", "e", "s">>, "title">>,
   <<<<"a", "A">>, "title">>,
   <<<<"h", "e", "r", "b">>, "title">>,
   <<<<"H", "e", "r", "b">>, "author">>,
   <<<<"d", "u", "n", "e">>, "author">>,
   <<<<>>, "author">>,
   <<Isbn(1), "isbn">>,
   <<SubSeq(Isbn(1), 1, IsbnLen - 1), "isbn">>,
   <<Isbn(1), "title">>,
   <<<<"a">>, "isbn">>,
   <<<<"D", "u", "n", "e">>, "genre">>}

SearchCatalog ==
  \E arg \in SearchInputs :
    search_books_in_catalog(arg[1], arg[2]) /\ UNCHANGED <<trip, procs>>

NextCatalog == AddBookCatalog \/ SearchCatalog

SpecCatalog == Init /\ [][NextCatalog]_vars

\* One patron's loans as the clock moves past their due dates
FeePatrons == {P1, P2}

Txn1 == <<"t", "x", "n", "_", "1", "2", "3">>
TxnBad == <<"a", "b", "c">>

\* what the payment gateway may answer
GatewayResponses ==
  {[raised |-> FALSE, success |-> TRUE, transaction_id |-> Txn1,
    message |-> "success"],
   [raised |-> FALSE, success |-> FALSE, transaction_id |-> <<>>,
    message |-> "card declined"],
   [raised |-> TRUE, success |-> FALSE, transaction_id |-> <<>>,
    message |-> "Network error"]}

SearchInputsFee ==
  {<<<<"d", "u">>, "title">>, <<<<"H", "E">>, "author">>, <<Isbn(1), "isbn">>}

RefundAmounts == {0, 150, MaxRefund, MaxRefund + 50}
RefundTxns == {Txn1, TxnBad, <<>>}
PayPatrons == {P1, PShort}

AddBookFee == AddBook(AddInputsLimit, MaxBooks) /\ UNCHANGED <<trip, procs>>

\* the loans are taken out before the clock moves
BorrowFee ==
  now = 0 /\ Borrow({P1}, MaxBooks, MaxRecords) /\ UNCHANGED <<trip, procs>>
ReturnFee == Return({P1}, MaxBooks) /\ UNCHANGED <<trip, procs>>

\* the clock moves once, by up to MaxAdvanceDays days
Advance ==
  \E n \in 1..Days(MaxAdvanceDays) :
    /\ now = 0
    /\ now' = now + n
    /\ UNCHANGED <<books, records, result, trip, calls, procs>>

CalculateFeeStep ==
  \E patron_id \in FeePatrons, book_id \in 1..(MaxBooks + 1) :
    calculate_late_fee(patron_id, book_id) /\ UNCHANGED <<trip, procs>>

SearchFee ==
  \E arg \in SearchInputsFee :
    search_books_in_catalog(arg[1], arg[2]) /\ UNCHANGED <<trip, procs>>

StatusStep ==
  \E patron_id \in FeePatrons :
    get_patron_status_report(patron_id) /\ UNCHANGED <<trip, procs>>

PayStep ==
  \E patron_id \in PayPatrons, book_id \in 1..(MaxBooks + 1),
     response \in GatewayResponses :
    pay_late_fees(patron_id, book_id, response) /\ UNCHANGED <<trip, procs>>

RefundStep ==
  \E transaction_id \in RefundTxns, amount \in RefundAmounts,
     response \in GatewayResponses :
    refund_late_fee_payment(transaction_id, amount, response)
      /\ UNCHANGED <<trip, procs>>

NextFee ==
  \/ AddBookFee \/ BorrowFee \/ ReturnFee \/ Advance
  \/ CalculateFeeStep \/ StatusStep

SpecFee == Init /\ [][NextFee]_vars

\* The queries and the payment flow next to the operations that write
AdvanceWeeks ==
  \E n \in 1..MaxAdvanceWeeks :
    /\ now = 0
    /\ now' = now + Days(7 * n)
    /\ UNCHANGED <<books, records, result, trip, calls, procs>>

NextQuery ==
  \/ AddBookFee \/ BorrowFee \/ ReturnFee \/ AdvanceWeeks
  \/ CalculateFeeStep \/ SearchFee \/ StatusStep \/ PayStep \/ RefundStep

SpecQuery == Init /\ [][NextQuery]_vars

\* Borrow, return and borrow again, remembering the store before the borrow
TripPatrons == {P1, P2}

AddBookTrip ==
  AddBook(AddInputsLimit, MaxBooks) /\ trip' = NoTrip /\ UNCHANGED procs

BorrowTrip ==
  \E patron_id \in TripPatrons, book_id \in 1..(MaxBooks + 1) :
    /\ borrow_book_by_patron(patron_id, book_id, TRUE, TRUE)
    /\ RowCount' <= MaxRecords + 1
    /\ UNCHANGED procs
    /\ trip' =
         IF trip.phase = "returned" /\ trip.patron_id = patron_id
              /\ trip.book_id = book_id
         THEN [trip EXCEPT !.phase = IF result'.success THEN "borrowed again"
                                                        ELSE "refused"]
         ELSE IF result'.success
         THEN [phase |-> "borrowed", patron_id |-> patron_id,
               book_id |-> book_id,
               available_copies |-> books[book_id].available_copies,
               borrow_count |-> get_patron_borrow_count(patron_id)]
         ELSE NoTrip

ReturnTrip ==
  \E patron_id \in TripPatrons, book_id \in 1..(MaxBooks + 1) :
    /\ return_book_by_patron(patron_id, book_id, TRUE, TRUE)
    /\ UNCHANGED procs
    /\ trip' =
         IF trip.phase = "borrowed" /\ trip.patron_id = patron_id
              /\ trip.book_id = book_id /\ result'.success
         THEN [trip EXCEPT !.phase = "returned"]
         ELSE NoTrip

NextTrip == AddBookTrip \/ BorrowTrip \/ ReturnTrip

SpecTrip == Init /\ [][NextTrip]_vars

\* A catalog whose titles hold blanks and whose authors hold punctuation,
\* searched with terms that keep or leave out the blanks and the punctuation
TitleSpaced == <<"A", "b", " ", "D", "e", "n">>
AuthorDotted == <<"H", ".", " ", "E", "d", "e", "n">>

AddInputsSearch ==
  {TitleSpaced, Title1} \X {AuthorDotted, Author1}
    \X {Isbn(Len(books) + 1)} \X {1, 2}

AddBookSearch == AddBook(AddInputsSearch, MaxBooks) /\ UNCHANGED <<trip, procs>>

SearchInputsSpaced ==
  {<<<<"a", "B", " ", "d", "E">>, "title">>,
   <<<<"a", "B", "d", "E">>, "title">>,
   <<<<"b", "d">>, "title">>,
   <<<<"D", "U", "N">>, "title">>,
   <<<<"h", ".", " ", "e", "D">>, "author">>,
   <<<<"h", " ", "e", "D">>, "author">>,
   <<<<"h", "e", "d">>, "author">>,
   <<<<"E", "R", "B">>, "author">>,
   <<<<"a", "b", "d", "e", "n">>, "author">>,
   <<<<"N">>, "title">>,
   <<<<"e", "d">>, "author">>,
   <<Isbn(1), "isbn">>}

SearchSpaced ==
  \E arg \in SearchInputsSpaced :
    search_books_in_catalog(arg[1], arg[2]) /\ UNCHANGED <<trip, procs>>

NextSearch == AddBookSearch \/ SearchSpaced

SpecSearch == Init /\ [][NextSearch]_vars

\* Borrow and return against a store whose writes may fail
FaultPatrons == {P1}

AddBookFault == AddBook(AddInputsLimit, MaxBooks) /\ UNCHANGED <<trip, procs>>

\* the copies a book may have beyond its total once writes have failed
Drift(bks) ==
  \A i \in 1..Len(bks) :
    bks[i].available_copies <= bks[i].total_copies + MaxDrift

BorrowFault ==
  \E patron_id \in FaultPatrons, book_id \in 1..(MaxBooks + 1),
     insert_ok \in BOOLEAN, update_ok \in BOOLEAN :
    /\ borrow_book_by_patron(patron_id, book_id, insert_ok, update_ok)
    /\ RowCount' <= MaxRecords
    /\ UNCHANGED <<trip, procs>>

ReturnFault ==
  \E patron_id \in FaultPatrons, book_id \in 1..(MaxBooks + 1),
     update_ok \in BOOLEAN, return_ok \in BOOLEAN :
    /\ return_book_by_patron(patron_id, book_id, update_ok, return_ok)
    /\ Drift(books')
    /\ UNCHANGED <<trip, procs>>

NextFault == AddBookFault \/ BorrowFault \/ ReturnFault

SpecFault == Init /\ [][NextFault]_vars

\* One patron up to the borrowing limit, all loans overdue by the same time
CapPatrons == {P1}

AddBookCap == AddBook(AddInputsLimit, MaxBooksCap) /\ UNCHANGED <<trip, procs>>

BorrowCap ==
  now = 0 /\ Borrow(CapPatrons, MaxBooksCap, MaxBooksCap) /\ UNCHANGED <<trip, procs>>

\* the clock moves once, to the due date of the loans and up to
\* MaxOverdueDays days past it
AdvanceCap ==
  \E n \in 0..Days(MaxOverdueDays) :
    /\ now = 0
    /\ now' = Days(LoanDays) + n
    /\ UNCHANGED <<books, records, result, trip, calls, procs>>

CalculateFeeCap ==
  \E patron_id \in CapPatrons, book_id \in 1..(MaxBooksCap + 1) :
    calculate_late_fee(patron_id, book_id) /\ UNCHANGED <<trip, procs>>

StatusCap ==
  \E patron_id \in CapPatrons :
    get_patron_status_report(patron_id) /\ UNCHANGED <<trip, procs>>

NextCap ==
  AddBookCap \/ BorrowCap \/ AdvanceCap \/ CalculateFeeCap \/ StatusCap

SpecCap == Init /\ [][NextCap]_vars

\* One patron who returns a book late and borrows it again, the clock
\* moving past a due date more than once
ReloanPatrons == {P1}

AddBookReloan == AddBook(AddInputsLimit, MaxBooks) /\ UNCHANGED <<trip, procs>>

BorrowReloan ==
  Borrow(ReloanPatrons, MaxBooks, MaxRecords) /\ UNCHANGED <<trip, procs>>

ReturnReloan == Return(ReloanPatrons, MaxBooks) /\ UNCHANGED <<trip, procs>>

\* the clock moves by a loan period and up to MaxLateDays days more, twice
\* at most
AdvanceReloan ==
  \E n \in 1..MaxLateDays :
    /\ now' = now + Days(LoanDays + n)
    /\ now' <= 2 * (Days(LoanDays) + Days(MaxLateDays))
    /\ UNCHANGED <<books, records, result, trip, calls, procs>>

CalculateFeeReloan ==
  \E patron_id \in ReloanPatrons, book_id \in 1..(MaxBooks + 1) :
    calculate_late_fee(patron_id, book_id) /\ UNCHANGED <<trip, procs>>

StatusReloan ==
  \E patron_id \in ReloanPatrons :
    get_patron_status_report(patron_id) /\ UNCHANGED <<trip, procs>>

NextReloan ==
  \/ AddBookReloan \/ BorrowReloan \/ ReturnReloan \/ AdvanceReloan
  \/ CalculateFeeReloan \/ StatusReloan

SpecReloan == Init /\ [][NextReloan]_vars

\* Two borrow_book_by_patron requests that run interleaved: each step is one
\* storage call of the function together with the checks that follow it
RacePatrons == {P1, PShort}

\* the catalog is filled before the first loan
AddBookRace ==
  /\ records = <<>>
  /\ procs = NoProcs
  /\ AddBook(AddInputsLimit, MaxBooksRace)
  /\ UNCHANGED <<trip, procs>>

Answer(i, ok, msg, args) ==
  /\ result' = Result(ok, msg, args)
  /\ procs' = [procs EXCEPT ![i] = NoProc]

Goto(i, pc) == procs' = [procs EXCEPT ![i].pc = pc]

\* the request arrives and its patron id is validated; the second request
\* is the one that arrives while another runs; the loans are asked
\* for in the order of the catalog: the book of the last loan or one of the
\* next two
RaceCall(i) ==
  /\ procs[i].pc = "idle"
  /\ i = "second" => procs["first"].pc # "idle"
  /\ \E patron_id \in RacePatrons, book_id \in 1..(Len(books) + 1) :
       /\ book_id >= RowCount
       /\ book_id <= RowCount + 2
       /\ IF InvalidPatronId(patron_id)
          THEN Answer(i, FALSE, "Invalid patron ID. Must be exactly 6 digits.",
                      <<>>)
          ELSE /\ procs' = [procs EXCEPT ![i] =
                              [pc |-> "get_book_by_id", patron_id |-> patron_id,
                               book_id |-> book_id, book |-> NoBook]]
               /\ UNCHANGED result
  /\ UNCHANGED <<books, records, now, trip, calls>>

\* book = get_book_by_id(book_id) and the two checks on it
RaceGetBook(i) ==
  /\ procs[i].pc = "get_book_by_id"
  /\ LET book == get_book_by_id(procs[i].book_id)
     IN IF book = NoBook
        THEN Answer(i, FALSE, "Book not found.", <<>>)
        ELSE IF NotAvailable(book)
        THEN Answer(i, FALSE, "This book is currently not available.", <<>>)
        ELSE /\ procs' = [procs EXCEPT ![i].pc = "get_patron_borrowed_books",
                                       ![i].book = book]
             /\ UNCHANGED result
  /\ UNCHANGED <<books, records, now, trip, calls>>

\* patron_curr_books = get_patron_borrowed_books(patron_id) and the loop
RaceGetBorrowed(i) ==
  /\ procs[i].pc = "get_patron_borrowed_books"
  /\ IF AlreadyBorrowed(get_patron_borrowed_books(procs[i].patron_id),
                        procs[i].book_id)
     THEN Answer(i, FALSE, "You have already borrowed a copy of this book.",
                 <<>>)
     ELSE Goto(i, "get_patron_borrow_count") /\ UNCHANGED result
  /\ UNCHANGED <<books, records, now, trip, calls>>

\* current_borrowed = get_patron_borrow_count(patron_id) and the limit
RaceGetCount(i) ==
  /\ procs[i].pc = "get_patron_borrow_count"
  /\ IF LimitReached(get_patron_borrow_count(procs[i].patron_id))
     THEN Answer(i, FALSE,
                 "You have reached the maximum borrowing limit of 5 books.",
                 <<>>)
     ELSE Goto(i, "insert_borrow_record") /\ UNCHANGED result
  /\ UNCHANGED <<books, records, now, trip, calls>>

\* insert_borrow_record(patron_id, book_id, borrow_date, due_date)
RaceInsert(i) ==
  /\ procs[i].pc = "insert_borrow_record"
  /\ records' = insert_borrow_record(records, procs[i].patron_id,
                                     procs[i].book_id, now,
                                     now + Days(LoanDays))
  /\ Goto(i, "update_book_availability")
  /\ UNCHANGED <<books, now, result, trip, calls>>

\* update_book_availability(book_id, -1) and the answer
RaceUpdate(i) ==
  /\ procs[i].pc = "update_book_availability"
  /\ books' = update_book_availability(books, procs[i].book_id, BorrowDelta)
  /\ Answer(i, TRUE, "Successfully borrowed {title}. Due date: {due_date}.",
            <<procs[i].book.title, DateOf(now + Days(LoanDays))>>)
  /\ UNCHANGED <<records, now, trip, calls>>

RaceStep ==
  \E i \in ProcIds :
    \/ RaceCall(i) \/ RaceGetBook(i) \/ RaceGetBorrowed(i)
    \/ RaceGetCount(i) \/ RaceInsert(i) \/ RaceUpdate(i)

NextRace == AddBookRace \/ RaceStep

SpecRace == Init /\ [][NextRace]_vars

\* All six operations under well-formed and malformed patron ids, known and
\* unknown book ids, and loans that are overdue by any number of days
TotalPatrons == {P1, PShort, PAlpha}

SearchInputsTotal ==
  SearchInputsFee \cup {<<<<"d", "u">>, "year">>, <<<<>>, "title">>}

AddBookTotal == AddBook(AddInputs, MaxBooks) /\ UNCHANGED <<trip, procs>>

\* the days past the due date of a loan taken at the start: none, the first,
\* the last of the first tier, the first of the second tier and the last day
\* considered
OverdueDaysTotal ==
  {0, 1, FirstTierDays, FirstTierDays + 1, MaxOverdueDays}

\* the clock moves once, to the first moment after so many days
AdvanceTotal ==
  \E d \in OverdueDaysTotal :
    /\ now = 0
    /\ now' = Days(LoanDays + d) + 1
    /\ UNCHANGED <<books, records, result, trip, calls, procs>>

BorrowTotal ==
  Borrow(TotalPatrons, MaxBooks, MaxRecords) /\ UNCHANGED <<trip, procs>>

ReturnTotal == Return(TotalPatrons, MaxBooks) /\ UNCHANGED <<trip, procs>>

CalculateFeeTotal ==
  \E patron_id \in TotalPatrons, book_id \in 0..(MaxBooks + 1) :
    calculate_late_fee(patron_id, book_id) /\ UNCHANGED <<trip, procs>>

SearchTotal ==
  \E arg \in SearchInputsTotal :
    search_books_in_catalog(arg[1], arg[2]) /\ UNCHANGED <<trip, procs>>

StatusTotal ==
  \E patron_id \in TotalPatrons :
    get_patron_status_report(patron_id) /\ UNCHANGED <<trip, procs>>

NextTotal ==
  \/ AddBookTotal \/ BorrowTotal \/ ReturnTotal \/ AdvanceTotal
  \/ CalculateFeeTotal \/ SearchTotal \/ StatusTotal

SpecTotal == Init /\ [][NextTotal]_vars


----------------------------------------------------------------------------
(* The store as the claims read it *)

Row(r) == records[r[1]][r[2]]
OpenRowsOfBook(b) == {r \in RowIds : r[1][2] = b /\ Row(r).return_date = NoDate}
ClosedRowsOfBook(b) == {r \in RowIds : r[1][2] = b /\ Row(r).return_date # NoDate}
OpenRowsOfPatron(p) == {r \in RowIds : r[1][1] = p /\ Row(r).return_date = NoDate}
OpenRowsOf(p, b) ==
  {<<<<p, b>>, i>> : i \in {j \in 1..Len(Rows(p, b)) :
                              Rows(p, b)[j].return_date = NoDate}}
BookIds == 1..Len(books)

MsgBorrowed == "Successfully borrowed {title}. Due date: {due_date}."
MsgReturnedNoFee == "You have successfully returned your book. There are no late fees on this book. Thank you!"
MsgInvalidPatron == "Invalid patron ID. Must be exactly 6 digits."
MsgNotFound == "Book not found."
MsgNotAvailable == "This book is currently not available."
MsgAlreadyBorrowed == "You have already borrowed a copy of this book."
MsgLimit == "You have reached the maximum borrowing limit of 5 books."
MsgNotBorrowed == "You have not currently borrowed this book."

\* the requests the properties range over
BookIdInputs == 1..(Len(books) + 1)
Patrons == {k[1] : k \in DOMAIN records}
BorrowCall(p, b) == borrow_book_by_patron(p, b, TRUE, TRUE)
ReturnCall(p, b) == return_book_by_patron(p, b, TRUE, TRUE)

\* C1: in every state reached by addBook, borrow and return with storage calls
\* that succeed, each book's available_copies is its total_copies minus the
\* number of its open borrow records
C1_AvailableIsTotalMinusOpen ==
  \A b \in BookIds :
    books[b].available_copies
      = books[b].total_copies - Cardinality(OpenRowsOfBook(b))

\* a book with an open record and a returned one, right after a return
C1_Witness ==
  /\ result.message = MsgReturnedNoFee
  /\ \E b \in BookIds : OpenRowsOfBook(b) # {} /\ ClosedRowsOfBook(b) # {}

\* C2: in every state reached by addBook, borrow and return with storage calls
\* that succeed, 0 <= available_copies <= total_copies for every book
C2_AvailableWithinBounds ==
  \A b \in BookIds :
    0 <= books[b].available_copies
      /\ books[b].available_copies <= books[b].total_copies

\* both copies of a book are out, and a further borrow of it was refused
C2_Witness ==
  /\ result.message = MsgNotAvailable
  /\ \E b \in BookIds :
       books[b].total_copies = 2 /\ books[b].available_copies = 0

\* C3: in every state reached by borrow and return, no patron has more than
\* 5 open borrow records
C3_AtMostFiveOpen ==
  \A p \in Patrons : Cardinality(OpenRowsOfPatron(p)) <= 5

\* a patron's fifth borrow has just succeeded
C3_Witness ==
  /\ result.message = MsgBorrowed
  /\ Cardinality(OpenRowsOfPatron(P1)) = 5

C4_AtMostOneOpen ==
  \A p \in Patrons, b \in BookIds : Cardinality(OpenRowsOf(p, b)) <= 1

\* C4: a patron never has two open records of one book: across every step
\* each (patron, book) keeps at most one open record, and a borrow by a patron
\* who holds an open record of a book that still has copies available fails
\* with the "already borrowed a copy" message
C4_OneOpenRecordPerBook ==
  /\ []C4_AtMostOneOpen
  /\ [][\A p \in LimitPatrons, b \in BookIds :
          (OpenRowsOf(p, b) # {} /\ books[b].available_copies > 0
             /\ ~(result' = Result(FALSE, MsgAlreadyBorrowed, <<>>)
                    /\ records' = records))
            => ~BorrowCall(p, b)]_vars

\* a patron holding one copy of a book that has another copy left was refused
C4_Witness ==
  /\ result.message = MsgAlreadyBorrowed
  /\ \E p \in Patrons, b \in BookIds :
       Cardinality(OpenRowsOf(p, b)) = 1 /\ books[b].available_copies > 0

\* C5: a patron with exactly 4 open records who borrows an available book not
\* held succeeds and then has 5; with 5 open records the borrow of an
\* available book not held fails with the "maximum borrowing limit" message
C5_FifthSucceedsSixthFails ==
  [][\A p \in LimitPatrons, b \in BookIds :
       LET open == Cardinality(OpenRowsOfPatron(p))
       IN (/\ open \in {4, 5}
           /\ ~InvalidPatronId(p)
           /\ books[b].available_copies > 0
           /\ OpenRowsOf(p, b) = {}
           /\ BorrowCall(p, b))
            => IF open = 4
               THEN /\ result'.success
                    /\ result'.message = MsgBorrowed
                    /\ Cardinality(OpenRowsOfPatron(p)') = 5
               ELSE /\ result' = Result(FALSE, MsgLimit, <<>>)
                    /\ OpenRowsOfPatron(p)' = OpenRowsOfPatron(p)]_vars

\* the sixth borrow of a patron with 5 open records was refused
C5_Witness ==
  /\ result.message = MsgLimit
  /\ Cardinality(OpenRowsOfPatron(P1)) = 5

\* the check of a borrow request that the claimed order makes fail first
C6_FirstFailing(p, b) ==
  IF ~(Len(p) = 6 /\ \A i \in 1..Len(p) : p[i] \in Digits)
  THEN MsgInvalidPatron
  ELSE IF b \notin BookIds THEN MsgNotFound
  ELSE IF books[b].available_copies <= 0 THEN MsgNotAvailable
  ELSE IF OpenRowsOf(p, b) # {} THEN MsgAlreadyBorrowed
  ELSE IF Cardinality(OpenRowsOfPatron(p)) >= 5 THEN MsgLimit
  ELSE "none"

\* C6: a borrow reports the first failing check in the order patron id, book
\* id, availability, already borrowed, borrowing limit, and only that one
C6_FirstFailingCheckReported ==
  [][\A p \in LimitPatrons, b \in BookIdInputs :
       LET first == C6_FirstFailing(p, b)
       IN (first # "none" /\ result' # Result(FALSE, first, <<>>))
            => ~BorrowCall(p, b)]_vars

\* a patron holding the last copy of a book was told it is not available
C6_Witness ==
  /\ result.message = MsgNotAvailable
  /\ \E b \in BookIds :
       OpenRowsOf(P1, b) # {} /\ books[b].available_copies = 0

\* C7: a successful borrow adds exactly one open record of (patron, book) due
\* 14 days after its borrow date, takes exactly 1 from the book's
\* available_copies, and changes no other book and no other record
C7_SuccessfulBorrowEffect ==
  [][\A p \in SpecPatrons, b \in BookIdInputs :
       (result'.success /\ BorrowCall(p, b))
         => /\ b \in BookIds
            /\ Rows(p, b)' = Append(Rows(p, b),
                                    [borrow_date |-> now,
                                     due_date |-> now + 14 * TicksPerDay,
                                     return_date |-> NoDate])
            /\ DOMAIN records' = DOMAIN records \cup {<<p, b>>}
            /\ \A k \in DOMAIN records \ {<<p, b>>} : records'[k] = records[k]
            /\ books' = [books EXCEPT
                           ![b].available_copies = books[b].available_copies - 1]
     ]_vars

\* a borrow has just succeeded in a catalog of two books that holds another
\* record already
C7_Witness ==
  /\ result.message = MsgBorrowed
  /\ Len(books) >= 2
  /\ RowCount >= 2
  /\ \E r \in RowIds :
       Row(r) = [borrow_date |-> now, due_date |-> now + 14 * TicksPerDay,
                 return_date |-> NoDate]

\* C8: a borrow or a return that fails a validation check returns
\* (false, message) and changes no book and no borrow record
C8_RejectionChangesNothing ==
  [][\A p \in LimitPatrons, b \in BookIdInputs :
       LET first == C6_FirstFailing(p, b)
       IN /\ (first # "none"
                /\ ~(result' = Result(FALSE, first, <<>>)
                       /\ books' = books /\ records' = records))
               => ~BorrowCall(p, b)
          /\ (OpenRowsOf(p, b) = {}
                /\ ~(result' = Result(FALSE, MsgNotBorrowed, <<>>)
                       /\ books' = books /\ records' = records))
               => ~ReturnCall(p, b)]_vars

\* a return was refused while the store holds books and records
C8_Witness ==
  /\ result = Result(FALSE, MsgNotBorrowed, <<>>)
  /\ Len(books) >= 1
  /\ RowCount >= 1

\* C9: a return fails with the "not currently borrowed" message exactly when
\* the patron has no open record of the book, also after having returned it
C9_NotBorrowedIffNoOpenRecord ==
  [][\A p \in LimitPatrons, b \in BookIdInputs :
       ((result' = Result(FALSE, MsgNotBorrowed, <<>>))
          # (OpenRowsOf(p, b) = {}))
         => ~ReturnCall(p, b)]_vars

\* a return was refused when every record of the store is a returned one
C9_Witness ==
  /\ result.message = MsgNotBorrowed
  /\ RowCount >= 1
  /\ OpenCount = 0

\* C10: a successful return adds exactly 1 to the book's available_copies and
\* sets return_date on the patron's open record of the book, which stays in
\* the table; no other book and no other record changes
C10_SuccessfulReturnEffect ==
  [][\A p \in SpecPatrons, b \in BookIdInputs :
       (result'.success /\ ReturnCall(p, b))
         => /\ b \in BookIds
            /\ Cardinality(OpenRowsOf(p, b)) = 1
            /\ OpenRowsOf(p, b)' = {}
            /\ books' = [books EXCEPT
                           ![b].available_copies = books[b].available_copies + 1]
            /\ DOMAIN records' = DOMAIN records
            /\ \A k \in DOMAIN records \ {<<p, b>>} : records'[k] = records[k]
            /\ Len(Rows(p, b)') = Len(Rows(p, b))
            /\ \A i \in 1..Len(Rows(p, b)) :
                 Rows(p, b)'[i] =
                   IF Rows(p, b)[i].return_date = NoDate
                   THEN [Rows(p, b)[i] EXCEPT !.return_date = now]
                   ELSE Rows(p, b)[i]]_vars

\* a return has just succeeded, leaving a returned record next to another
\* patron's open one in a catalog of two books
C10_Witness ==
  /\ result.message = MsgReturnedNoFee
  /\ Len(books) >= 2
  /\ OpenCount >= 1
  /\ \E r \in RowIds : Row(r).return_date = now

\* C11: a successful borrow followed by a successful return by the same patron
\* of the same book restores the book's available_copies and the patron's
\* number of open records to their values before the borrow, and the same
\* patron's next borrow of that book succeeds
C11_BorrowReturnRestores ==
  /\ trip.phase = "returned"
       => /\ books[trip.book_id].available_copies = trip.available_copies
          /\ Cardinality(OpenRowsOfPatron(trip.patron_id)) = trip.borrow_count
  /\ trip.phase # "refused"

\* a patron who borrowed and returned a book has borrowed it again while
\* another record is open
C11_Witness ==
  /\ trip.phase = "borrowed again"
  /\ result.message = MsgBorrowed
  /\ Cardinality(OpenRowsOf(trip.patron_id, trip.book_id)) = 1
  /\ ClosedCount >= 1
  /\ OpenCount >= 2

\* a call that returned a (success, message) pair with success true
Succeeded(r) == "success" \in DOMAIN r /\ r.success

MsgReturnedLate == "You have successfully returned your book. This book is {days_late} days late and you owe ${fee_amount} in late fees for this book."

\* the number of whole days an instant lies past a due date
WholeDaysPast(due_date) ==
  CHOOSE d \in 0..(MaxAdvanceDays + 1) :
    /\ due_date + d * TicksPerDay <= now
    /\ now < due_date + (d + 1) * TicksPerDay

\* 0.50 a day up to 7 days, 1.00 a day after them, 15.00 at most, in cents
TieredFee(d) ==
  IF d <= 7 THEN 50 * d
  ELSE IF 350 + 100 * (d - 7) < 1500 THEN 350 + 100 * (d - 7)
  ELSE 1500

\* the fee an open row of the table carries at this instant
FeeOfRow(r) ==
  IF now > Row(r).due_date THEN TieredFee(WholeDaysPast(Row(r).due_date))
  ELSE 0

\* C12: for an open record d whole days overdue, the fee calculation returns
\* days_overdue = d and the tiered fee of d: 0.50*d up to d = 7, then
\* 3.50 + 1.00*(d-7) while below 15.00, and 15.00 from there on
C12_TieredCappedFee ==
  \A p \in FeePatrons, b \in BookIds :
    \A r \in OpenRowsOf(p, b) :
      now > Row(r).due_date
        => LET d == WholeDaysPast(Row(r).due_date)
               fee == calculate_late_fee_for_book(p, b)
           IN /\ fee = [fee_amount |-> TieredFee(d), days_overdue |-> d]
              /\ d = 3 => fee.fee_amount = 150
              /\ d = 8 => fee.fee_amount = 450
              /\ d = 10 => fee.fee_amount = 650
              /\ d = 18 => fee.fee_amount = 1450
              /\ d = 19 => fee.fee_amount = 1500

\* the fee of a record 19 days overdue was asked for and came back capped
C12_Witness ==
  /\ result = Returned([fee_amount |-> 1500, days_overdue |-> 19])
  /\ \E r \in OpenRowsOfPatron(P1) : now = Row(r).due_date + 19 * TicksPerDay

\* C13: the fee calculation returns fee_amount 0 and days_overdue 0 when the
\* patron has no open record of the book or the open record is not overdue
\* (due_date >= now)
C13_NoFeeUnlessOverdue ==
  \A p \in FeePatrons, b \in BookIdInputs :
    (\A r \in OpenRowsOf(p, b) : Row(r).due_date >= now)
      => calculate_late_fee_for_book(p, b)
           = [fee_amount |-> 0, days_overdue |-> 0]

\* the fee of a record was asked for at the very instant it falls due
C13_Witness ==
  /\ result = Returned([fee_amount |-> 0, days_overdue |-> 0])
  /\ now > 0
  /\ \E r \in OpenRowsOfPatron(P1) : Row(r).due_date = now

\* C14: a successful return reports the fee that the fee calculation yields
\* for the record while it is still open: d days late and the tiered fee of
\* d when that fee is not 0, and the no-fee message exactly when it is 0
C14_ReturnReportsOpenFee ==
  [][\A p \in FeePatrons, b \in BookIdInputs :
       (Succeeded(result') /\ ReturnCall(p, b))
         => LET r == CHOOSE r \in OpenRowsOf(p, b) : TRUE
                fee == FeeOfRow(r)
            IN /\ fee = calculate_late_fee_for_book(p, b).fee_amount
               /\ IF fee = 0
                  THEN result' = Result(TRUE, MsgReturnedNoFee, <<>>)
                  ELSE result' = Result(TRUE, MsgReturnedLate,
                                        <<WholeDaysPast(Row(r).due_date), fee>>)
     ]_vars

\* a book was returned 10 days late and 6.50 reported
C14_Witness ==
  /\ Succeeded(result)
  /\ result.message = MsgReturnedLate
  /\ result.args = <<10, 650>>
  /\ \E r \in RowIds :
       Row(r).return_date = now /\ now = Row(r).due_date + 10 * TicksPerDay

\* the sum of the fees that the open rows of a set carry
RECURSIVE FeesOfRows(_)
FeesOfRows(rows) ==
  IF rows = {} THEN 0
  ELSE LET r == CHOOSE r \in rows : TRUE
       IN FeeOfRow(r) + FeesOfRows(rows \ {r})

RowsOfPatron(p) == {r \in RowIds : r[1][1] = p}

\* C15: the status report of a patron counts the patron's open records, owes
\* the sum of the fees of the open records only, and lists every record of
\* the patron, open or returned, in the borrowing history; a patron without
\* records gets an empty current list, nothing owed and a count of 0
C15_StatusReportTotals ==
  \A p \in FeePatrons :
    LET report == StatusReport(p)
        history == report.borrowing_history
    IN /\ report.num_books_currently_borrowed
            = Cardinality(OpenRowsOfPatron(p))
       /\ Len(report.curr_borrowed_books) = Cardinality(OpenRowsOfPatron(p))
       /\ report.total_late_fees_owed = FeesOfRows(OpenRowsOfPatron(p))
       /\ Len(history) = Cardinality(RowsOfPatron(p))
       /\ \A r \in RowsOfPatron(p) :
            Cardinality({i \in 1..Len(history) :
                           /\ history[i].book_id = r[1][2]
                           /\ history[i].return_date = Row(r).return_date})
              = Cardinality({q \in RowsOfPatron(p) :
                               /\ q[1][2] = r[1][2]
                               /\ Row(q).return_date = Row(r).return_date})
       /\ RowsOfPatron(p) = {}
            => report = [curr_borrowed_books |-> <<>>,
                         total_late_fees_owed |-> 0,
                         num_books_currently_borrowed |-> 0,
                         borrowing_history |-> <<>>]

\* a report was made for a patron with an overdue open record and a record
\* returned late: it owes the fee of the open record alone
C15_Witness ==
  /\ result = Returned(StatusReport(P1))
  /\ StatusReport(P1).total_late_fees_owed > 0
  /\ StatusReport(P1).total_late_fees_owed < 1500
  /\ StatusReport(P1).num_books_currently_borrowed = 1
  /\ \E r \in RowsOfPatron(P1) :
       Row(r).return_date # NoDate /\ Row(r).return_date > Row(r).due_date

MsgPaid == "Payment successful! {message}"

\* C16: the fee calculation, the search, the status report, the payment of a
\* late fee and its refund change no book and no borrow record, so a late
\* fee that was paid is still owed for the fee calculation and in the status
\* report
C16_QueriesChangeNothing ==
  [][/\ (books' # books \/ records' # records)
         => /\ \A p \in FeePatrons, b \in BookIdInputs :
                 ~calculate_late_fee(p, b)
            /\ \A arg \in SearchInputsFee :
                 ~search_books_in_catalog(arg[1], arg[2])
            /\ \A p \in FeePatrons : ~get_patron_status_report(p)
            /\ \A p \in PayPatrons, b \in BookIdInputs,
                  response \in GatewayResponses :
                 ~pay_late_fees(p, b, response)
            /\ \A t \in RefundTxns, amount \in RefundAmounts,
                  response \in GatewayResponses :
                 ~refund_late_fee_payment(t, amount, response)
     /\ \A p \in PayPatrons, b \in BookIdInputs,
           response \in GatewayResponses :
          (Succeeded(result') /\ "transaction_id" \in DOMAIN result'
             /\ pay_late_fees(p, b, response))
            => /\ calculate_late_fee_for_book(p, b).fee_amount > 0
               /\ calculate_late_fee_for_book(p, b)'
                    = calculate_late_fee_for_book(p, b)
               /\ StatusReport(p)' = StatusReport(p)
     ]_vars

\* a late fee has just been paid and is still owed
C16_Witness ==
  /\ Succeeded(result)
  /\ result.message = MsgPaid
  /\ \E b \in BookIds : calculate_late_fee_for_book(P1, b).fee_amount > 0
  /\ StatusReport(P1).total_late_fees_owed > 0

MsgTitleRequired == "Title is required."
MsgTitleTooLong == "Title must be less than 200 characters."
MsgAuthorRequired == "Author is required."
MsgAuthorTooLong == "Author must be less than 100 characters."
MsgIsbnNone == "ISBN cannot be None. Must only be comprised of digits in a string."
MsgIsbnLength == "ISBN must be exactly 13 digits."
MsgIsbnSpaces == "ISBN cannot have spaces."
MsgIsbnDigits == "ISBN must be digits"
MsgCopies == "Total copies must be a positive integer."
MsgIsbnExists == "A book with this ISBN already exists."
MsgAdded == "Book {title} has been successfully added to the catalog."

AddCall(arg) == add_book_to_catalog(arg[1], arg[2], arg[3], arg[4], TRUE)

\* a string without its leading and trailing blanks
Trimmed(str) ==
  IF \A i \in 1..Len(str) : str[i] = " " THEN <<>>
  ELSE LET first == CHOOSE i \in 1..Len(str) :
                      str[i] # " " /\ \A j \in 1..(i - 1) : str[j] = " "
           cut == CHOOSE k \in 0..(Len(str) - 1) :
                    /\ str[Len(str) - k] # " "
                    /\ \A j \in (Len(str) - k + 1)..Len(str) : str[j] = " "
       IN SubSeq(str, first, Len(str) - cut)

IsbnInCatalog(isbn) == \E b \in BookIds : books[b].isbn = isbn

\* the check of an addBook request that the claimed order makes fail first
C17_FirstFailing(arg) ==
  LET title == Trimmed(arg[1])
      author == Trimmed(arg[2])
      isbn == arg[3]
      total_copies == arg[4]
  IN IF Len(title) = 0 THEN MsgTitleRequired
     ELSE IF Len(title) > 200 THEN MsgTitleTooLong
     ELSE IF Len(author) = 0 THEN MsgAuthorRequired
     ELSE IF Len(author) > 100 THEN MsgAuthorTooLong
     ELSE IF isbn = None THEN MsgIsbnNone
     ELSE IF Len(isbn) # 13 THEN MsgIsbnLength
     ELSE IF \E i \in 1..13 : isbn[i] = " " THEN MsgIsbnSpaces
     ELSE IF \E i \in 1..13 : isbn[i] \notin Digits THEN MsgIsbnDigits
     ELSE IF total_copies < 1 THEN MsgCopies
     ELSE IF IsbnInCatalog(isbn) THEN MsgIsbnExists
     ELSE "none"

\* C17: addBook reports the first failing check in the order title empty,
\* title over 200, author empty, author over 100, isbn null, isbn length not
\* 13, isbn with a space, isbn not all digits, copies not positive, isbn
\* already in the catalog, and leaves the catalog as it was; a title of 200
\* and an author of 100 characters pass
C17_AddFirstFailingCheckReported ==
  [][\A arg \in AddInputsCatalog :
       LET first == C17_FirstFailing(arg)
       IN IF first = "none"
          THEN ~Succeeded(result') => ~AddCall(arg)
          ELSE ~(result' = Result(FALSE, first, <<>>) /\ books' = books)
                 => ~AddCall(arg)]_vars

\* a book with a title of 200 and an author of 100 characters is in the
\* catalog, and a request with a short isbn that holds a space was told
\* about the length
C17_Witness ==
  /\ result = Result(FALSE, MsgIsbnLength, <<>>)
  /\ \E b \in BookIds :
       Len(books[b].title) = 200 /\ Len(books[b].author) = 100

\* C18: a successful addBook(title, author, isbn, n) adds exactly one book,
\* with total_copies = n and available_copies = n, and changes no book that
\* was there and no borrow record
C18_SuccessfulAddEffect ==
  [][\A arg \in AddInputs :
       (Succeeded(result') /\ AddCall(arg))
         => /\ Len(books') = Len(books) + 1
            /\ \A b \in BookIds : books'[b] = books[b]
            /\ books'[Len(books')].isbn = arg[3]
            /\ books'[Len(books')].total_copies = arg[4]
            /\ books'[Len(books')].available_copies = arg[4]
            /\ records' = records]_vars

\* a second book has just been added while a copy of the first is on loan
C18_Witness ==
  /\ result.message = MsgAdded
  /\ Len(books) = 2
  /\ books[2].available_copies = books[2].total_copies
  /\ books[1].available_copies < books[1].total_copies
  /\ OpenCount >= 1

C19_IsbnsDiffer ==
  \A b, c \in BookIds : b # c => books[b].isbn # books[c].isbn

\* C19: no two books of the catalog have the same ISBN: an addBook whose
\* arguments are valid but for an isbn already in the catalog fails with the
\* "already exists" message, whatever its title, author and copies are
C19_NoDuplicateIsbn ==
  /\ []C19_IsbnsDiffer
  /\ [][\A arg \in AddInputsCatalog :
          (/\ IsbnInCatalog(arg[3])
           /\ Trimmed(arg[1]) # <<>> /\ Len(Trimmed(arg[1])) <= 200
           /\ Trimmed(arg[2]) # <<>> /\ Len(Trimmed(arg[2])) <= 100
           /\ arg[4] >= 1
           /\ ~(result' = Result(FALSE, MsgIsbnExists, <<>>)
                  /\ books' = books))
            => ~AddCall(arg)]_vars

\* the isbn of the first book was offered again under another title, author
\* and number of copies, and refused
C19_Witness ==
  /\ result = Result(FALSE, MsgIsbnExists, <<>>)
  /\ Len(books) = 2
  /\ books[1].title # books[2].title

\* term lies in str from some position on, letter case aside
OccursIn(term, str) ==
  \E i \in 0..(Len(str) - Len(term)) :
    \A j \in 1..Len(term) : LowerOf(str[i + j]) = LowerOf(term[j])

\* the condition under which a row of the catalog answers a search
Answers(book, term, field) ==
  \/ field = "isbn" /\ book.isbn = term
  \/ field = "title" /\ OccursIn(term, book.title)
  \/ field = "author" /\ OccursIn(term, book.author)

Punctuation == {" ", ".", ",", "-", "'"}
Squeezed(str) == SelectSeq(str, LAMBDA c : c \notin Punctuation)

\* a term that leaves out blanks or punctuation of the field it occurs in
OccursSqueezed(term, str) == OccursIn(Squeezed(term), Squeezed(str))

\* C21: a title or author search finds a book regardless of case even when
\* the term leaves out the blanks or the punctuation of the stored title or
\* author: every book whose field holds the term once blanks and punctuation
\* are left out of both is among the books found
C21_SearchIgnoresSpacesAndPunctuation ==
  \A arg \in SearchInputsSpaced :
    LET found == SearchFrom(get_all_books, arg[1], arg[2])
    IN \A b \in BookIds :
         ((arg[2] = "title" /\ OccursSqueezed(arg[1], books[b].title))
            \/ (arg[2] = "author" /\ OccursSqueezed(arg[1], books[b].author)))
           => \E i \in 1..Len(found) : found[i] = books[b]

\* the book "Ab Den" by "H. Eden" is in the catalog; the terms that keep the
\* blank and the full stop find it, in either case, the terms that leave
\* them out find nothing, and a search has just returned nothing
C21_Witness ==
  /\ \E b \in BookIds :
       books[b].title = TitleSpaced /\ books[b].author = AuthorDotted
  /\ SearchFrom(get_all_books, <<"a", "B", " ", "d", "E">>, "title") # <<>>
  /\ SearchFrom(get_all_books, <<"h", ".", " ", "e", "D">>, "author") # <<>>
  /\ SearchFrom(get_all_books, <<"a", "B", "d", "E">>, "title") = <<>>
  /\ SearchFrom(get_all_books, <<"h", " ", "e", "D">>, "author") = <<>>
  /\ result = Returned(<<>>)

MsgNoFee == "No late fees to pay for this book."
MsgPayFailed == "Payment failed: {message}"
MsgPayError == "Payment processing error: {e}"

\* the gateway answered with a success, neither a decline nor an exception
Accepted(response) == ~response.raised /\ response.success

\* the message with which a payment is refused before the gateway is asked:
\* the patron id is not 6 digits, no fee is owed, the book is unknown, in
\* that order; "" when the payment goes to the gateway
PayRefusal(p, b) ==
  IF ~(Len(p) = 6 /\ \A i \in 1..Len(p) : p[i] \in Digits)
  THEN MsgInvalidPatron
  ELSE IF calculate_late_fee_for_book(p, b).fee_amount <= 0 THEN MsgNoFee
  ELSE IF b \notin BookIds THEN MsgNotFound
  ELSE ""

\* C22: pay_late_fees answers (false, message, none) without a call to the
\* payment gateway when the patron id is not 6 digits, no fee is owed or the
\* book is unknown, in that order; otherwise it calls the gateway once, with
\* the calculated fee, the transaction id it returns is set exactly when the
\* gateway accepted, and a decline or an exception of the gateway gives
\* (false, message, none)
C22_PayGatewayProtocol ==
  [][\A p \in PayPatrons, b \in BookIdInputs, response \in GatewayResponses :
       ("transaction_id" \in DOMAIN result' /\ pay_late_fees(p, b, response))
         => IF PayRefusal(p, b) # ""
            THEN /\ result' = Result3(FALSE, PayRefusal(p, b), <<>>, None)
                 /\ calls' = <<>>
            ELSE /\ Len(calls') = 1
                 /\ calls'[1].method = "process_payment"
                 /\ calls'[1].patron_id = p
                 /\ calls'[1].amount
                      = calculate_late_fee_for_book(p, b).fee_amount
                 /\ (result'.transaction_id # None) <=> Accepted(response)
                 /\ result'.success <=> Accepted(response)
                 /\ ~Accepted(response)
                      => /\ result'.message
                              = (IF response.raised THEN MsgPayError
                                                    ELSE MsgPayFailed)
                         /\ result'.args = <<response.message>>
    ]_vars

\* a late fee has just been paid: the gateway was called once with the fee
\* owed and its transaction id came back
C22_Witness ==
  /\ Succeeded(result)
  /\ "transaction_id" \in DOMAIN result
  /\ result.transaction_id = Txn1
  /\ Len(calls) = 1
  /\ calls[1].method = "process_payment"
  /\ calls[1].amount > 0
  /\ \E b \in BookIds :
       calls[1].amount = calculate_late_fee_for_book(P1, b).fee_amount

MsgInvalidTxn == "Invalid transaction ID."
MsgRefundNotPositive == "Refund amount must be greater than 0."
MsgRefundTooLarge == "Refund amount exceeds maximum late fee."
MsgRefundFailed == "Refund failed: {message}"
MsgRefundError == "Refund processing error: {e}"

\* the message with which a refund is refused before the gateway is asked:
\* the transaction id is empty or lacks the prefix txn_, the amount is not
\* positive, the amount is above 15.00, in that order
RefundRefusal(t, amount) ==
  IF t = <<>> \/ Len(t) < 4 \/ SubSeq(t, 1, 4) # <<"t", "x", "n", "_">>
  THEN MsgInvalidTxn
  ELSE IF amount <= 0 THEN MsgRefundNotPositive
  ELSE IF amount > 1500 THEN MsgRefundTooLarge
  ELSE ""

\* C23: refund_late_fee_payment refuses without a call to the gateway a
\* transaction id that is empty or does not start with txn_, then an amount
\* <= 0, then an amount > 15.00, 15.00 itself being accepted; otherwise it
\* calls the gateway once and succeeds exactly when the gateway accepted, an
\* exception of the gateway becoming a (false, message) result
C23_RefundGatewayProtocol ==
  [][\A t \in RefundTxns, amount \in RefundAmounts,
        response \in GatewayResponses :
       ("success" \in DOMAIN result' /\ "transaction_id" \notin DOMAIN result'
          /\ refund_late_fee_payment(t, amount, response))
         => IF RefundRefusal(t, amount) # ""
            THEN /\ result' = Result(FALSE, RefundRefusal(t, amount), <<>>)
                 /\ calls' = <<>>
            ELSE /\ calls' = <<[method |-> "refund_payment",
                               transaction_id |-> t, amount |-> amount]>>
                 /\ result'.success <=> Accepted(response)
                 /\ response.raised
                      => result' = Result(FALSE, MsgRefundError,
                                          <<response.message>>)
    ]_vars

\* a refund of exactly 15.00 has just been accepted by the gateway
C23_Witness ==
  /\ result = Result(TRUE, "{message}", <<"success">>)
  /\ calls = <<[method |-> "refund_payment", transaction_id |-> Txn1,
                amount |-> 1500]>>

MsgDbInsert == "Database error occurred while creating borrow record."
MsgDbAvailability == "Database error occurred while updating book availability."
MsgDbReturnDate == "Database error occurred while updating book return date."

\* the books with the available_copies of book b changed by delta
WithAvailability(b, delta) ==
  [i \in 1..Len(books) |->
     IF i = b
     THEN [books[i] EXCEPT !.available_copies = books[i].available_copies + delta]
     ELSE books[i]]

\* the records with one open row of (p, b), borrowed now, added
WithOpenRow(p, b) ==
  [k \in DOMAIN records \cup {<<p, b>>} |->
     IF k = <<p, b>>
     THEN Rows(p, b) \o <<[borrow_date |-> now, due_date |-> now + 14 * TicksPerDay,
                          return_date |-> NoDate]>>
     ELSE records[k]]

\* C25: a borrow or a return whose storage write fails answers (false,
\* "Database error ...") naming the step and writes nothing more and rolls
\* nothing back: when the first write fails (the insert of the record for
\* borrow, the increment of the availability for return) the store is
\* unchanged; when the second write fails (the decrement for borrow, the
\* return date for return) the first write stays, the record inserted with
\* the availability not decremented, respectively the availability
\* incremented with the record still open
C25_FailedWriteNoRollback ==
  [][/\ \A p \in FaultPatrons, b \in BookIdInputs,
          insert_ok \in BOOLEAN, update_ok \in BOOLEAN :
          (~(insert_ok /\ update_ok) /\ C6_FirstFailing(p, b) = "none"
             /\ borrow_book_by_patron(p, b, insert_ok, update_ok))
            => IF ~insert_ok
               THEN /\ result' = Result(FALSE, MsgDbInsert, <<>>)
                    /\ books' = books
                    /\ records' = records
               ELSE /\ result' = Result(FALSE, MsgDbAvailability, <<>>)
                    /\ books' = books
                    /\ records' = WithOpenRow(p, b)
     /\ \A p \in FaultPatrons, b \in BookIdInputs,
          update_ok \in BOOLEAN, return_ok \in BOOLEAN :
          (~(update_ok /\ return_ok) /\ OpenRowsOf(p, b) # {}
             /\ return_book_by_patron(p, b, update_ok, return_ok))
            => IF ~update_ok
               THEN /\ result' = Result(FALSE, MsgDbAvailability, <<>>)
                    /\ books' = books
                    /\ records' = records
               ELSE /\ result' = Result(FALSE, MsgDbReturnDate, <<>>)
                    /\ books' = WithAvailability(b, 1)
                    /\ records' = records
                    /\ OpenRowsOf(p, b)' # {}
    ]_vars

\* the decrement of a borrow has just failed: the patron has an open record
\* of a book all of whose copies are still counted as available
C25_Witness ==
  /\ result = Result(FALSE, MsgDbAvailability, <<>>)
  /\ \E b \in BookIds :
       /\ OpenRowsOf(P1, b) # {}
       /\ OpenRowsOfBook(b) = OpenRowsOf(P1, b)
       /\ books[b].available_copies = books[b].total_copies

\* the borrowing history that the status report of a patron lists
HistoryOf(p) == StatusReport(p).borrowing_history

\* C26: borrow records are never deleted: at every step every record of the
\* table is still there with its patron, book, borrow date and due date, a
\* record that has a return date keeps it and is never open again, the
\* borrowing history in the status report of a patron never gets shorter, a
\* successful borrow adds exactly one record, an open one, and nothing but a
\* successful borrow adds a record
C26_RecordsOnlyGrow ==
  [][/\ \A k \in DOMAIN records :
          /\ k \in DOMAIN records'
          /\ Len(records'[k]) >= Len(records[k])
          /\ \A i \in 1..Len(records[k]) :
               /\ records'[k][i].borrow_date = records[k][i].borrow_date
               /\ records'[k][i].due_date = records[k][i].due_date
               /\ records[k][i].return_date # NoDate
                    => records'[k][i].return_date = records[k][i].return_date
     /\ \A p \in TripPatrons :
          \A before \in {HistoryOf(p)}, after \in {HistoryOf(p)'} :
            /\ Len(after) >= Len(before)
            /\ \A i \in 1..Len(before) :
                 \E j \in 1..Len(after) :
                   /\ after[j].book_id = before[i].book_id
                   /\ before[i].return_date # NoDate
                        => after[j].return_date = before[i].return_date
     /\ (result'.success /\ result'.message = MsgBorrowed)
          => /\ RowCount' = RowCount + 1
             /\ OpenCount' = OpenCount + 1
     /\ RowCount' # RowCount
          => result'.success /\ result'.message = MsgBorrowed
    ]_vars

\* a patron has borrowed again a book that the patron had returned: the
\* returned record is still in the table and in the history, next to the
\* open one
C26_Witness ==
  /\ trip.phase = "borrowed again"
  /\ result.message = MsgBorrowed
  /\ \E p \in TripPatrons, b \in BookIds :
       /\ Len(Rows(p, b)) = 2
       /\ Rows(p, b)[1].return_date # NoDate
       /\ Rows(p, b)[2].return_date = NoDate
       /\ Len(HistoryOf(p)) >= 2

\* the result is the answer of a fee calculation, of a status report
IsFee(r) == "value" \in DOMAIN r /\ "fee_amount" \in DOMAIN r.value
IsReport(r) == "value" \in DOMAIN r /\ "total_late_fees_owed" \in DOMAIN r.value

\* C27: for every number d >= 0 of days overdue the fee of the fee
\* calculation is a whole multiple of 0.50 between 0.00 and 15.00, does not
\* go down as d goes up, and is 15.00 from d = 19 on and at no d before; so
\* a status report never owes more than 15.00 for each open record, 75.00 at
\* most for the 5 open records a patron may have
C27_FeeStepsAndCap ==
  /\ \A d \in 0..(MaxOverdueDays + 1) :
       /\ FeeOf(d) % 50 = 0
       /\ FeeOf(d) >= 0
       /\ FeeOf(d) <= 1500
       /\ \A e \in 0..d : FeeOf(e) <= FeeOf(d)
       /\ FeeOf(d) = 1500 <=> d >= 19
  /\ IsFee(result)
       => /\ result.value.days_overdue \in 0..(MaxOverdueDays + 1)
          /\ result.value.fee_amount = FeeOf(result.value.days_overdue)
          /\ \A b \in BookIds :
               LET fee == calculate_late_fee_for_book(P1, b)
               IN /\ fee.fee_amount % 50 = 0
                  /\ fee.fee_amount >= 0
                  /\ fee.fee_amount <= 1500
                  /\ fee.fee_amount = 1500 <=> fee.days_overdue >= 19
  /\ IsReport(result)
       => /\ result.value.total_late_fees_owed
               <= 1500 * result.value.num_books_currently_borrowed
          /\ result.value.num_books_currently_borrowed <= 5
          /\ result.value.total_late_fees_owed <= 7500

\* a status report has just owed 75.00 for five loans that are 19 days
\* overdue
C27_Witness ==
  /\ IsReport(result)
  /\ result.value.num_books_currently_borrowed = 5
  /\ result.value.total_late_fees_owed = 7500
  /\ now = (14 + 19) * TicksPerDay
  /\ calculate_late_fee_for_book(P1, 1)
       = [fee_amount |-> 1500, days_overdue |-> 19]

NoFee == [fee_amount |-> 0, days_overdue |-> 0]

\* the returned rows of a patron and a book
ClosedRowsOf(p, b) ==
  {<<<<p, b>>, i>> : i \in {j \in 1..Len(Rows(p, b)) :
                              Rows(p, b)[j].return_date # NoDate}}

\* no fee is calculated for a patron and a book without an open record, and
\* a fee that is calculated belongs to an overdue open record that was
\* borrowed after every return of the book by the patron
C28_FeeOnlyOfOpenLoan ==
  \A p \in ReloanPatrons, b \in BookIdInputs :
    \A fee \in {calculate_late_fee_for_book(p, b)} :
      /\ OpenRowsOf(p, b) = {} => fee = NoFee
      /\ fee.fee_amount > 0
           => \E r \in OpenRowsOf(p, b) :
                /\ now > Row(r).due_date
                /\ \A q \in ClosedRowsOf(p, b) :
                     Row(q).return_date <= Row(r).borrow_date

\* C28: once a patron has returned a book, the fee calculation for the
\* patron and the book gives {0.00, 0} and the late fee announced at the
\* return is no longer part of total_late_fees_owed in the status report,
\* until the patron borrows the book again and the new loan is overdue
C28_ReturnedLoanOwesNothing ==
  /\ []C28_FeeOnlyOfOpenLoan
  /\ [][\A p \in ReloanPatrons, b \in BookIdInputs :
          (Succeeded(result') /\ ReturnCall(p, b))
            => \A owed \in {calculate_late_fee_for_book(p, b).fee_amount} :
                 /\ calculate_late_fee_for_book(p, b)' = NoFee
                 /\ StatusReport(p)'.total_late_fees_owed
                      = StatusReport(p).total_late_fees_owed - owed
                 /\ result'.message = MsgReturnedLate
                      => owed > 0 /\ result'.args[2] = owed
                 /\ result'.message = MsgReturnedNoFee => owed = 0
       ]_vars

\* a book that was returned late and borrowed again is overdue again: the
\* fee calculated is that of the new loan
C28_Witness ==
  /\ IsFee(result)
  /\ result.value.fee_amount > 0
  /\ \E b \in BookIds :
       /\ result.value = calculate_late_fee_for_book(P1, b)
       /\ \E q \in ClosedRowsOf(P1, b) :
            Row(q).return_date > Row(q).due_date
       /\ \E r \in OpenRowsOf(P1, b) :
            now = Row(r).due_date + result.value.days_overdue * TicksPerDay

\* the due date of an open row passed less than one day ago
UnderOneDayLate(r) ==
  now > Row(r).due_date /\ now < Row(r).due_date + TicksPerDay

\* an open record less than a day past its due date is flagged overdue and
\* its fee is {0.00, 0}
C29_UnderOneDayFlaggedNoFee ==
  \A p \in FeePatrons, b \in BookIds :
    \A r \in OpenRowsOf(p, b) :
      UnderOneDayLate(r)
        => /\ \E i \in 1..Len(get_patron_borrowed_books(p)) :
                /\ get_patron_borrowed_books(p)[i].book_id = b
                /\ get_patron_borrowed_books(p)[i].is_overdue
           /\ calculate_late_fee_for_book(p, b)
                = [fee_amount |-> 0, days_overdue |-> 0]

\* C29: an open record that is flagged overdue but whose due date passed
\* less than one full day ago gets days_overdue = 0 and fee_amount = 0.00
\* from the fee calculation, the time difference being cut to whole days,
\* and its return gives the no-fee message
C29_UnderOneDayNoFee ==
  /\ []C29_UnderOneDayFlaggedNoFee
  /\ [][\A p \in FeePatrons, b \in BookIdInputs :
          (Succeeded(result') /\ ReturnCall(p, b)
             /\ \E r \in OpenRowsOf(p, b) : UnderOneDayLate(r))
            => result' = Result(TRUE, MsgReturnedNoFee, <<>>)
       ]_vars

\* a book was returned less than a day after its due date, with the no-fee
\* message
C29_Witness ==
  /\ result = Result(TRUE, MsgReturnedNoFee, <<>>)
  /\ \E r \in RowIds :
       /\ Row(r).return_date = now
       /\ now > Row(r).due_date
       /\ now < Row(r).due_date + TicksPerDay

\* no request is between two of its storage calls
Quiescent == \A i \in ProcIds : procs[i].pc = "idle"

\* C30 as stated: with two borrows interleaved at the storage calls,
\* available_copies never drops below 0, no patron has more than 5 open
\* records, and no patron has two open records of the same book
C30_InterleavedKeepsGuarantees ==
  /\ \A b \in BookIds : books[b].available_copies >= 0
  /\ \A p \in Patrons : Cardinality(OpenRowsOfPatron(p)) <= 5
  /\ \A p \in Patrons, b \in BookIds : Cardinality(OpenRowsOf(p, b)) <= 1

\* C30, amended: with two borrows interleaved at the storage calls, each of
\* the three guarantees can be missed by one and by no more:
\* available_copies never drops below -1, no patron has more than 6 open
\* records, and no patron has more than two open records of the same book;
\* and once both borrows are over, the available_copies of every book is
\* still its total_copies minus the number of its open records
C30_InterleavedMissByOne ==
  /\ \A b \in BookIds : books[b].available_copies >= 0 - 1
  /\ \A p \in Patrons : Cardinality(OpenRowsOfPatron(p)) <= 5 + 1
  /\ \A p \in Patrons, b \in BookIds : Cardinality(OpenRowsOf(p, b)) <= 2
  /\ Quiescent
       => \A b \in BookIds :
            books[b].available_copies
              = books[b].total_copies - Cardinality(OpenRowsOfBook(b))

\* two interleaved borrows of the last copy of a book by the same patron are
\* over: the patron has two open records of it and its available_copies is
\* -1, and the patron has 6 open records
C30_Witness ==
  /\ Quiescent
  /\ result.message = MsgBorrowed
  /\ Cardinality(OpenRowsOfPatron(P1)) = 6
  /\ \E b \in BookIds :
       /\ books[b].available_copies = 0 - 1
       /\ Cardinality(OpenRowsOf(P1, b)) = 2


\* a (success, message) pair, or a returned dict or list; never an exception
WellFormed(r) ==
  /\ ~IsRaised(r)
  /\ \/ /\ "success" \in DOMAIN r
        /\ r.success \in BOOLEAN
        /\ "message" \in DOMAIN r
     \/ "value" \in DOMAIN r

\* every call of the six operations has an outcome in the current store
EveryCallAnswers ==
  /\ \A arg \in AddInputs :
       ENABLED add_book_to_catalog(arg[1], arg[2], arg[3], arg[4], TRUE)
  /\ \A patron_id \in TotalPatrons, book_id \in 0..(MaxBooks + 1) :
       /\ ENABLED borrow_book_by_patron(patron_id, book_id, TRUE, TRUE)
       /\ ENABLED return_book_by_patron(patron_id, book_id, TRUE, TRUE)
       /\ ENABLED calculate_late_fee(patron_id, book_id)
  /\ \A arg \in SearchInputsTotal :
       ENABLED search_books_in_catalog(arg[1], arg[2])
  /\ \A patron_id \in TotalPatrons :
       ENABLED get_patron_status_report(patron_id)

\* C24: every call of add_book_to_catalog, borrow_book_by_patron,
\* return_book_by_patron, calculate_late_fee_for_book,
\* search_books_in_catalog and get_patron_status_report, with a well-formed
\* or malformed patron id, a known or unknown book id and open records that
\* are overdue by any number of days, in every store the operations can
\* reach, ends with a (success, message) pair or a returned dict or list and
\* never with an exception
C24_EveryCallReturns ==
  /\ WellFormed(result)
  /\ EveryCallAnswers

\* a book that is overdue by so many days that its fee is the largest one
\* was returned, and the answer is the pair that announces the fee
C24_Witness ==
  /\ Succeeded(result)
  /\ result.message = MsgReturnedLate
  /\ result.args[2] = MaxFee
  /\ \E b \in BookIds : ClosedRowsOfBook(b) # {} /\ OpenRowsOfBook(b) = {}
====
